---- MODULE Spec2Model ----
(***************************************************************************)
(* IconForge (src/IconForge.py): the file list, the conversion options and *)
(* run_conversion, the batch conversion handler of IconForgeApp.           *)
(*                                                                         *)
(* Paths and file names are sequences of tokens, so that basename,         *)
(* splitext, the f-strings and os.path.join are computed, not assumed.     *)
(***************************************************************************)
EXTENDS Integers, Sequences, FiniteSets, TLC

\* ---------------------------------------------------------------- bounds
MaxFiles == 3          \* longest file list explored
MaxTimers == 1         \* pending QTimer.singleShot(4000, reset_status) calls

\* ------------------------------------------------------------- constants
MAX_FILE_SIZE_MB == 4
MAX_FILE_SIZE_BYTES == MAX_FILE_SIZE_MB * 1024 * 1024
ICON_SIZES == <<16, 32, 48, 64, 128, 256>>

\* Qt's QProgressBar after construction: minimum 0, maximum 100, value -1
QT_PROGRESS_DEFAULT_MAX == 100
QT_PROGRESS_RESET == -1

\* ------------------------------------------------------- sequence helpers
Range(s) == {s[i] : i \in 1..Len(s)}

Max(a, b) == IF a >= b THEN a ELSE b

Min(a, b) == IF a <= b THEN a ELSE b

\* str.rfind: the last index of tok in s, 0 when absent
LastIndexOf(s, tok) ==
    LET hits == {i \in 1..Len(s) : s[i] = tok}
    IN  IF hits = {} THEN 0 ELSE CHOOSE i \in hits : \A j \in hits : j <= i

\* list.remove(v): drops the first occurrence of v
ListRemove(s, v) ==
    LET hits == {i \in 1..Len(s) : s[i] = v}
        k == CHOOSE i \in hits : \A j \in hits : i <= j
    IN  SubSeq(s, 1, k - 1) \o SubSeq(s, k + 1, Len(s))

\* ------------------------------------------------------------------ paths
\* the source files the user can add: two differ only in the directory,
\* two only in the extension, and one has another name
Paths ==
    { <<"a", "/", "x", ".", "png">>,
      <<"b", "/", "x", ".", "png">>,
      <<"a", "/", "x", ".", "jpg">>,
      <<"a", "/", "y", ".", "png">> }

\* what QFileDialog.getExistingDirectory returns: "" when cancelled
OutputDirs == { <<>>, <<"out">> }

\* os.path.basename
basename(path) == SubSeq(path, LastIndexOf(path, "/") + 1, Len(path))

\* os.path.splitext(name)[0]: cut at the last dot, unless only dots precede it
splitext_root(name) ==
    LET d == LastIndexOf(name, ".")
    IN  IF d > 0 /\ \E i \in 1..(d - 1) : name[i] # "."
        THEN SubSeq(name, 1, d - 1)
        ELSE name

\* base_name of run_conversion
base_name_of(path) == splitext_root(basename(path))

\* os.path.join(output_dir, name)
path_join(dir, name) == dir \o <<"/">> \o name

\* a name without the size
separate_name_no_size(base, size) == base \o <<".ico">>

\* f"{base_name}_{size}.ico"
separate_name(base, size) == base \o <<"_", ToString(size), ".ico">>

\* f"{base_name}.ico"
combined_name(base) == base \o <<".ico">>

\* --------------------------------------------------------------- the state
VARIABLES
    file_list,          \* self.file_list: the listed paths, in order
    size_checkboxes,    \* self.size_checkboxes: size -> checked
    bit_32,             \* self.bit_32.isChecked()
    save_separately,    \* self.save_separately_checkbox.isChecked()
    radius_slider,      \* self.radius_slider.value()
    status_label,       \* self.status_label text: [text, count]
    progress_max,       \* self.progress_bar.maximum()
    progress_value,     \* self.progress_bar.value()
    timers,             \* pending singleShot(reset_status) timers
    pc,                 \* "idle", "loop" (inside the for loop), "end"
    i,                  \* the loop variable of run_conversion, 1-based
    output_dir,         \* local output_dir
    selected_sizes,     \* local selected_sizes
    conversion_count,   \* local conversion_count
    outcome,            \* how the current run of run_conversion ended
    messages,           \* the message boxes shown by the current run
    saves,              \* the img_rgba.save calls made by the current run
    disk,               \* the files of output_dir written by the current run
    \* one call of apply_rounded_corners_pil, on images of pixels
    heap,               \* the Image objects: object id -> image
    image,              \* the argument image (an object id)
    radius,             \* the argument radius
    via,                \* the caller: "direct", "preview", "conversion"
    output,             \* the image the caller ends up with (an object id)
    original,           \* the content of the argument image before the call
    mask,               \* the local mask
    safe_radius,        \* the local safe_radius
    \* one img_rgba.save(output_path, format='ICO', sizes=..., bitmap_format=...)
    ico_request,        \* the arguments of the call
    ico_source,         \* img_rgba.size
    ico_pc,             \* "none", "open", "entries", "closed"
    ico_frames,         \* the frames to store, in order: their (width, height)
    ico_offset,         \* where the next payload goes
    ico_file,           \* the file: header, directory entries, payloads
    \* the view of the file list
    current_row,        \* self.file_list.currentRow(), 1-based; 0: no current item
    item_selected,      \* the current item is in self.file_list.selectedItems()
    current_image_path, \* self.current_image_path; <<>> for None
    preview_label,      \* what self.preview_label shows
    radius_value_label, \* the number self.radius_value_label shows
    added_size,         \* the os.path.getsize of each listed path when it was added
    last_add            \* the last add_files_to_list call: its argument, the list before

app_vars == << file_list, size_checkboxes, bit_32, save_separately,
               radius_slider, status_label, progress_max, progress_value,
               timers, pc, i, output_dir, selected_sizes, conversion_count,
               outcome, messages, saves, disk >>

mask_vars == << heap, image, radius, via, output, original, mask,
                safe_radius >>

ico_vars == << ico_request, ico_source, ico_pc, ico_frames, ico_offset,
               ico_file >>

pure_vars == << mask_vars, ico_vars >>

view_vars == << current_row, item_selected, current_image_path, preview_label,
                radius_value_label >>

list_vars == << view_vars, added_size, last_add >>

vars == << app_vars, pure_vars, list_vars >>

options == << size_checkboxes, bit_32, save_separately, radius_slider >>

widgets == << status_label, progress_max, progress_value, timers >>

locals == << i, output_dir, selected_sizes, conversion_count >>

record == << outcome, messages, saves, disk >>

\* the slider runs over 0..512; two positions are explored
RADIUS_SLIDER_MAX == 512
Radii == {0, RADIUS_SLIDER_MAX}

\* file sizes os.path.getsize can report: the limit and one above it
FileSizes == {MAX_FILE_SIZE_BYTES, MAX_FILE_SIZE_BYTES + 1}

Label(text, n) == [text |-> text, count |-> n]

\* QProgressBar.setMaximum(m) (minimum stays 0): a value left outside the
\* range resets the bar
setMaximum_value(value, m) ==
    IF value > Max(m, 0) THEN QT_PROGRESS_RESET ELSE value

\* QProgressBar.setValue(v): ignored when v is outside [0, maximum]
setValue(value, maximum, v) ==
    IF (v > maximum \/ v < 0) /\ maximum # 0 THEN value ELSE v

\* no call of apply_rounded_corners_pil is being followed
NoCall ==
    /\ heap = <<>>
    /\ image = 0
    /\ radius = 0
    /\ via = "none"
    /\ output = 0
    /\ original = <<>>
    /\ mask = <<>>
    /\ safe_radius = 0

\* no save call is being followed
NoSave ==
    /\ ico_request = <<>>
    /\ ico_source = <<>>
    /\ ico_pc = "none"
    /\ ico_frames = <<>>
    /\ ico_offset = 0
    /\ ico_file = <<>>

\* what self.preview_label shows
PREVIEW_INITIAL == "Select an image to preview"
PREVIEW_CLEARED == "Select an image..."
PREVIEW_NONE == "No image selected"
PREVIEW_ERROR == "Format Error"
PREVIEW_PIXMAP == "pixmap"

\* the view of the list the handlers lead to: nothing current in an empty
\* list, the first item current, selected and shown in another, next to
\* the radius of the slider
ViewOf(list) ==
    /\ current_row = (IF list = <<>> THEN 0 ELSE 1)
    /\ item_selected = (list # <<>>)
    /\ current_image_path = (IF list = <<>> THEN <<>> ELSE list[1])
    /\ preview_label = (IF list = <<>> THEN PREVIEW_INITIAL ELSE PREVIEW_PIXMAP)
    /\ radius_value_label = (IF list = <<>> THEN 0 ELSE radius_slider)
    /\ added_size = [p \in Paths |->
                        IF p \in Range(list) THEN MAX_FILE_SIZE_BYTES ELSE 0]
    /\ last_add = <<>>

\* the state after IconForgeApp.__init__
AppConstructed ==
    /\ file_list = <<>>
    /\ size_checkboxes = [s \in Range(ICON_SIZES) |-> TRUE]
    /\ bit_32 = TRUE
    /\ save_separately = FALSE
    /\ radius_slider = 0
    /\ status_label = Label("Ready", 0)
    /\ progress_max = QT_PROGRESS_DEFAULT_MAX
    /\ progress_value = QT_PROGRESS_RESET
    /\ timers = 0
    /\ pc = "idle"
    /\ i = 0
    /\ output_dir = <<>>
    /\ selected_sizes = <<>>
    /\ conversion_count = 0
    /\ outcome = "none"
    /\ messages = <<>>
    /\ saves = <<>>
    /\ disk = {}
    /\ ViewOf(<<>>)

Constructed == AppConstructed /\ NoCall /\ NoSave

\* ------------------------------------------------------------ the file list
\* the loop body without the look-up in the list
add_one_unlisted(list, path, size) ==
    IF size > MAX_FILE_SIZE_BYTES THEN list ELSE Append(list, path)

\* the loop body of add_files_to_list for one path
add_one(list, path, size) ==
    IF size > MAX_FILE_SIZE_BYTES THEN list
    ELSE IF path \notin Range(list) THEN Append(list, path)
    ELSE list

\* add_files_to_list over file_paths, a sequence of [path, size]
RECURSIVE add_all(_, _)
add_all(list, file_paths) ==
    IF file_paths = <<>> THEN list
    ELSE add_all(add_one(list, Head(file_paths).path, Head(file_paths).size),
                 Tail(file_paths))

Dropped == [path : Paths, size : FileSizes]

FilePathLists ==
    {<<f>> : f \in Dropped} \cup {<<f, g>> : f \in Dropped, g \in Dropped}

\* the sizes os.path.getsize returned for the paths the loop of
\* add_files_to_list appended
RECURSIVE add_all_sizes(_, _, _)
add_all_sizes(list, sizes, file_paths) ==
    IF file_paths = <<>> THEN sizes
    ELSE LET f == Head(file_paths)
             next == add_one(list, f.path, f.size)
         IN  add_all_sizes(next,
                           IF next # list THEN [sizes EXCEPT ![f.path] = f.size]
                           ELSE sizes,
                           Tail(file_paths))

\* lines 339-371: update_preview with the item of row current (0: none) and
\* the slider at r; Image.open or convert may raise
update_preview(list, row, r) ==
    IF row = 0
    THEN /\ preview_label' = PREVIEW_NONE
         /\ current_image_path' = <<>>
         /\ UNCHANGED radius_value_label
    ELSE /\ current_image_path' = list[row]
         /\ radius_value_label' = r
         /\ preview_label' \in {PREVIEW_PIXMAP, PREVIEW_ERROR}

\* add_images / dropEvent; setCurrentRow(0) emits currentItemChanged, which
\* is connected to update_preview
add_files_to_list ==
    /\ pc = "idle"
    /\ \E file_paths \in FilePathLists :
          LET new == add_all(file_list, file_paths)
          IN  /\ Len(new) <= MaxFiles
              /\ file_list' = new
              /\ added_size' = add_all_sizes(file_list, added_size, file_paths)
              /\ last_add' = [file_paths |-> file_paths, before |-> file_list]
              /\ IF Len(new) > 0 /\ current_row = 0
                 THEN /\ current_row' = 1
                      /\ item_selected' = TRUE
                      /\ update_preview(new, 1, radius_slider)
                 ELSE UNCHANGED view_vars
    /\ UNCHANGED << options, widgets, pc, locals, record >>
    /\ UNCHANGED pure_vars

\* the list without its k-th item
remove_at(list, k) == SubSeq(list, 1, k - 1) \o SubSeq(list, k + 1, Len(list))

\* the current row after takeItem(k) of the current item: the item that
\* followed it, else the one before it, else none
row_after_take(list, k) == IF k < Len(list) THEN k ELSE Len(list) - 1

\* lines 324-330; the list is in single selection mode, so the selected
\* item is the current one
remove_selected_image ==
    /\ pc = "idle"
    /\ IF ~ item_selected \/ current_row = 0
       THEN UNCHANGED << file_list, list_vars >>
       ELSE LET new == remove_at(file_list, current_row)
                row == row_after_take(file_list, current_row)
            IN  /\ file_list' = new
                /\ current_row' = row
                /\ item_selected' = (row # 0)
                /\ update_preview(new, row, radius_slider)
                /\ added_size' =
                      [added_size EXCEPT ![file_list[current_row]] = 0]
                /\ last_add' = <<>>
    /\ UNCHANGED << options, widgets, pc, locals, record >>
    /\ UNCHANGED pure_vars

\* lines 332-337
clear_list ==
    /\ pc = "idle"
    /\ file_list' = <<>>
    /\ current_row' = 0
    /\ item_selected' = FALSE
    /\ preview_label' = PREVIEW_CLEARED
    /\ current_image_path' = <<>>
    /\ added_size' = [p \in Paths |-> 0]
    /\ last_add' = <<>>
    /\ UNCHANGED << radius_value_label, options, widgets, pc, locals, record >>
    /\ UNCHANGED pure_vars

\* the user clicks the item of a row: currentItemChanged is emitted when
\* another item becomes the current one
SelectRow ==
    /\ pc = "idle"
    /\ \E row \in 1..Len(file_list) :
          /\ current_row' = row
          /\ item_selected' = TRUE
          /\ IF row # current_row
             THEN update_preview(file_list, row, radius_slider)
             ELSE UNCHANGED << current_image_path, preview_label,
                               radius_value_label >>
    /\ UNCHANGED << file_list, added_size, last_add, options, widgets, pc,
                    locals, record >>
    /\ UNCHANGED pure_vars

\* the user takes the selection off the current item (Ctrl+click)
DeselectRow ==
    /\ pc = "idle"
    /\ item_selected
    /\ item_selected' = FALSE
    /\ UNCHANGED << current_row, current_image_path, preview_label,
                    radius_value_label, file_list, added_size, last_add,
                    options, widgets, pc, locals, record >>
    /\ UNCHANGED pure_vars

\* -------------------------------------------------------------- the options
ToggleSize ==
    /\ pc = "idle"
    /\ \E s \in Range(ICON_SIZES) :
          size_checkboxes' = [size_checkboxes EXCEPT ![s] = ~ @]
    /\ UNCHANGED << file_list, bit_32, save_separately, radius_slider,
                    widgets, pc, locals, record >>
    /\ UNCHANGED << pure_vars, list_vars >>

SelectBitDepth ==
    /\ pc = "idle"
    /\ bit_32' = ~ bit_32
    /\ UNCHANGED << file_list, size_checkboxes, save_separately, radius_slider,
                    widgets, pc, locals, record >>
    /\ UNCHANGED << pure_vars, list_vars >>

ToggleSaveSeparately ==
    /\ pc = "idle"
    /\ save_separately' = ~ save_separately
    /\ UNCHANGED << file_list, size_checkboxes, bit_32, radius_slider,
                    widgets, pc, locals, record >>
    /\ UNCHANGED << pure_vars, list_vars >>

MoveRadiusSlider ==
    /\ pc = "idle"
    /\ \E r \in Radii \ {radius_slider} :
          /\ radius_slider' = r
          /\ update_preview(file_list, current_row, r)
    /\ UNCHANGED << file_list, size_checkboxes, bit_32, save_separately,
                    widgets, pc, locals, record >>
    /\ UNCHANGED << current_row, item_selected, added_size, last_add >>
    /\ UNCHANGED pure_vars

reset_status ==
    /\ pc = "idle"
    /\ timers > 0
    /\ timers' = timers - 1
    /\ progress_value' = setValue(progress_value, progress_max, 0)
    /\ status_label' = Label("Ready", 0)
    /\ UNCHANGED << file_list, options, progress_max, pc, locals, record >>
    /\ UNCHANGED << pure_vars, list_vars >>

\* ------------------------------------------------------------ run_conversion
\* [size for size, checkbox in self.size_checkboxes.items() if checked]:
\* the dict was filled in ICON_SIZES order
checked_sizes(boxes) == SelectSeq(ICON_SIZES, LAMBDA s : boxes[s])

\* the checked sizes as they are
effective_sizes_keep_256(boxes, use_32bit) == checked_sizes(boxes)

\* lines 403-405: 256 is dropped, with a warning, unless 32-bit is selected
effective_sizes(boxes, use_32bit) ==
    IF 256 \in Range(checked_sizes(boxes)) /\ ~ use_32bit
    THEN ListRemove(checked_sizes(boxes), 256)
    ELSE checked_sizes(boxes)

\* line 403: the condition of the warning
needs_warning(boxes, use_32bit) ==
    256 \in Range(checked_sizes(boxes)) /\ ~ use_32bit

Message(title, file) == [title |-> title, file |-> file]

\* the two formats swapped
bitmap_format_swapped(use_32bit) == IF use_32bit THEN "bmp" ELSE "png"

\* 'bmp' if not use_32bit else 'png'
bitmap_format(use_32bit) == IF ~ use_32bit THEN "bmp" ELSE "png"

\* the img_rgba.save calls of one pass of the for loop, in order; source
\* names the image being saved
save_requests(path, dir, sizes, separately, use_32bit) ==
    IF separately
    THEN [k \in 1..Len(sizes) |->
            [source |-> path,
             path |-> path_join(dir, separate_name(base_name_of(path), sizes[k])),
             sizes |-> << <<sizes[k], sizes[k]>> >>,
             bitmap_format |-> bitmap_format(use_32bit)]]
    ELSE << [source |-> path,
             path |-> path_join(dir, combined_name(base_name_of(path))),
             sizes |-> [k \in 1..Len(sizes) |-> <<sizes[k], sizes[k]>>],
             bitmap_format |-> bitmap_format(use_32bit)] >>

\* a save that succeeds leaves the complete file at its path
write_file(d, req) ==
    {f \in d : f.path # req.path}
        \cup {[path |-> req.path, source |-> req.source, sizes |-> req.sizes,
                complete |-> TRUE]}

\* a save that raises after the file was opened for writing leaves a
\* truncated file at its path
write_partial(d, req) ==
    {f \in d : f.path # req.path}
        \cup {[path |-> req.path, source |-> req.source, sizes |-> <<>>,
                complete |-> FALSE]}

RECURSIVE write_files(_, _)
write_files(d, reqs) ==
    IF reqs = <<>> THEN d
    ELSE write_files(write_file(d, Head(reqs)), Tail(reqs))

\* lines 415-419: the maximum of the progress bar
total_conversions(count, nsizes, separately) ==
    IF separately THEN count * nsizes ELSE count

\* lines 390-422: the checks and the set-up before the loop
run_conversion ==
    /\ pc = "idle"
    /\ timers < MaxTimers
    /\ \/ /\ Len(file_list) = 0
          /\ messages' = <<Message("No Files", <<>>)>>
          /\ outcome' = "no_files"
          /\ pc' = "end"
          /\ UNCHANGED << widgets, locals >>
       \/ /\ Len(file_list) # 0
          /\ \E dir \in OutputDirs :
              LET sizes == effective_sizes(size_checkboxes, bit_32)
                  warning == IF needs_warning(size_checkboxes, bit_32) THEN <<Message("Warning", <<>>)>>
                             ELSE <<>>
                  total == total_conversions(Len(file_list), Len(sizes),
                                             save_separately)
              IN  IF dir = <<>>
                  THEN /\ outcome' = "cancelled"
                       /\ pc' = "end"
                       /\ UNCHANGED << widgets, locals, messages >>
                  ELSE IF sizes = <<>>
                  THEN /\ messages' =
                            warning \o <<Message("No Sizes Selected", <<>>)>>
                       /\ outcome' = "no_sizes"
                       /\ pc' = "end"
                       /\ UNCHANGED << widgets, locals >>
                  ELSE /\ messages' = warning
                       /\ output_dir' = dir
                       /\ selected_sizes' = sizes
                       /\ status_label' = Label("Converting...", 0)
                       /\ progress_max' = total
                       /\ progress_value' =
                            setValue(setMaximum_value(progress_value, total),
                                     total, 0)
                       /\ conversion_count' = 0
                       /\ i' = 1
                       /\ outcome' = "running"
                       /\ pc' = "loop"
                       /\ UNCHANGED timers
    /\ UNCHANGED << file_list, options, saves, disk >>
    /\ UNCHANGED << pure_vars, list_vars >>

\* the except clause naming the file by its whole path
on_exception_full_path(path) ==
    /\ status_label' = Label("Error!", 0)
    /\ messages' = Append(messages, Message("Conversion Error", path))
    /\ timers' = timers + 1
    /\ outcome' = "error"
    /\ pc' = "end"

\* lines 455-460: the except clause
on_exception(path) ==
    /\ status_label' = Label("Error!", 0)
    /\ messages' = Append(messages, Message("Conversion Error", basename(path)))
    /\ timers' = timers + 1
    /\ outcome' = "error"
    /\ pc' = "end"

\* what may happen in one pass of the loop that makes n save calls:
\* <<what raised, the number of saves made before that, whether the save
\* that raised left a truncated file>>
pass_outcomes(n, rounding) ==
    {<<"none", n, FALSE>>}
        \cup {<<stage, 0, FALSE>> :
                stage \in {"open", "convert"}
                            \cup (IF rounding THEN {"mask"} ELSE {})}
        \cup {<<"save", done, partial>> :
                done \in 0..(n - 1), partial \in BOOLEAN}

\* lines 424-460: one pass of the for loop. Image.open, convert, the mask
\* or a save may raise
convert_file ==
    /\ pc = "loop"
    /\ i <= Len(file_list)
    /\ \E reqs \in {save_requests(file_list[i], output_dir, selected_sizes,
                                  save_separately, bit_32)} :
        \E o \in pass_outcomes(Len(reqs), radius_slider > 0) :
          \E written \in {write_files(disk, SubSeq(reqs, 1, o[2]))} :
             /\ saves' = saves \o
                    [k \in 1..(IF o[1] = "save" THEN o[2] + 1 ELSE o[2]) |->
                        [request |-> reqs[k], ok |-> k <= o[2]]]
             /\ disk' = IF o[1] = "save" /\ o[3]
                        THEN write_partial(written, reqs[o[2] + 1])
                        ELSE written
             /\ conversion_count' = conversion_count + o[2]
             /\ progress_value' =
                    IF o[2] = 0 THEN progress_value
                    ELSE setValue(progress_value, progress_max,
                                  conversion_count + o[2])
             /\ IF o[1] = "none"
                THEN /\ i' = i + 1
                     /\ UNCHANGED << status_label, timers, outcome, messages,
                                     pc >>
                ELSE /\ on_exception(file_list[i])
                     /\ UNCHANGED i
    /\ UNCHANGED << file_list, options, progress_max, output_dir,
                    selected_sizes >>
    /\ UNCHANGED << pure_vars, list_vars >>

\* lines 462-463: the loop ran to its end
finish_conversion ==
    /\ pc = "loop"
    /\ i > Len(file_list)
    /\ status_label' = Label("Success!", conversion_count)
    /\ timers' = timers + 1
    /\ outcome' = "success"
    /\ pc' = "end"
    /\ UNCHANGED << file_list, options, progress_max, progress_value, locals,
                    messages, saves, disk >>
    /\ UNCHANGED << pure_vars, list_vars >>

\* run_conversion returns to the event loop; its locals and the record of
\* the run end with it
return_to_event_loop ==
    /\ pc = "end"
    /\ pc' = "idle"
    /\ i' = 0
    /\ output_dir' = <<>>
    /\ selected_sizes' = <<>>
    /\ conversion_count' = 0
    /\ outcome' = "none"
    /\ messages' = <<>>
    /\ saves' = <<>>
    /\ disk' = {}
    /\ UNCHANGED << file_list, options, widgets >>
    /\ UNCHANGED << pure_vars, list_vars >>

\* the user's handlers on the file list and the options
NextUI ==
    \/ add_files_to_list
    \/ clear_list
    \/ ToggleSize
    \/ SelectBitDepth
    \/ ToggleSaveSeparately
    \/ MoveRadiusSlider

SpecUI == Constructed /\ [][NextUI]_vars

\* the handlers on the file list
NextList ==
    \/ add_files_to_list
    \/ remove_selected_image
    \/ clear_list
    \/ SelectRow
    \/ DeselectRow

SpecList == Constructed /\ [][NextList]_vars

\* the file lists add_files_to_list can build in n iterations of its loop
RECURSIVE lists_after(_)
lists_after(n) ==
    IF n = 0 THEN {<<>>}
    ELSE LET prev == lists_after(n - 1)
         IN  prev \cup {add_one(l, p, sz) :
                            l \in prev, p \in Paths, sz \in FileSizes}

\* the "Convert and Save" button is pressed in a state the handlers above
\* lead to: any listed files, any sizes, bit depth and grouping. The slider
\* is off 0, so that the mask is one of the steps that may raise; what the
\* radius does to the image is followed in SpecMask
Init ==
    /\ file_list \in lists_after(MaxFiles)
    /\ size_checkboxes \in [Range(ICON_SIZES) -> BOOLEAN]
    /\ bit_32 \in BOOLEAN
    /\ save_separately \in BOOLEAN
    /\ radius_slider = RADIUS_SLIDER_MAX
    /\ status_label = Label("Ready", 0)
    /\ progress_max = QT_PROGRESS_DEFAULT_MAX
    /\ progress_value = QT_PROGRESS_RESET
    /\ timers = 0
    /\ pc = "idle"
    /\ i = 0
    /\ output_dir = <<>>
    /\ selected_sizes = <<>>
    /\ conversion_count = 0
    /\ outcome = "none"
    /\ messages = <<>>
    /\ saves = <<>>
    /\ disk = {}
    /\ ViewOf(file_list)
    /\ NoCall
    /\ NoSave

Next ==
    \/ run_conversion
    \/ convert_file
    \/ finish_conversion
    \/ return_to_event_loop
    \/ reset_status

Spec == Init /\ [][Next]_vars

\* ------------------------------------------------ apply_rounded_corners_pil
MaxSide == 5           \* largest image width and height explored
MaxRadius == 4         \* largest radius argument explored

Pixels(w, h) == (0..(w - 1)) \X (0..(h - 1))

\* the RGBA images a caller holds after convert("RGBA"): fully opaque,
\* fully transparent and partly transparent ones
AlphaKinds == {"opaque", "transparent", "mixed"}

alpha_of(kind, x, y) ==
    CASE kind = "opaque" -> 255
      [] kind = "transparent" -> 0
      [] OTHER -> IF (x + y) % 2 = 0 THEN 128 ELSE 255

SourceImage(w, h, kind, seed) ==
    [width |-> w, height |-> h,
     px |-> [p \in Pixels(w, h) |->
                [rgb |-> <<(p[1] * 7 + seed) % 256, (p[2] * 13) % 256, seed>>,
                 a |-> alpha_of(kind, p[1], p[2])]]]

SourceImages ==
    {SourceImage(w, h, kind, seed) :
        w \in 1..MaxSide, h \in 1..MaxSide, kind \in AlphaKinds,
        seed \in {0, 200}}

\* Image.new('L', size, 0)
new_L(size, colour) ==
    [width |-> size[1], height |-> size[2],
     px |-> [p \in Pixels(size[1], size[2]) |-> colour]]

\* the pixel (x, y) lies in the rounded rectangle with the corners (x0, y0)
\* and (x1, y1), both inclusive, and the corner radius r: in the box, and
\* where it lies in one of the four r x r corner squares, within distance r
\* of that corner's centre
in_rounded_rectangle(x, y, box, r) ==
    LET x0 == box[1]
        y0 == box[2]
        x1 == box[3]
        y1 == box[4]
        cx == IF x < x0 + r THEN x0 + r ELSE IF x > x1 - r THEN x1 - r ELSE x
        cy == IF y < y0 + r THEN y0 + r ELSE IF y > y1 - r THEN y1 - r ELSE y
    IN  /\ x0 <= x /\ x <= x1 /\ y0 <= y /\ y <= y1
        /\ (cx # x /\ cy # y) =>
              (x - cx) * (x - cx) + (y - cy) * (y - cy) <= r * r

\* ImageDraw.Draw(m).rounded_rectangle(box, radius=r, fill=fill)
rounded_rectangle(m, box, r, fill) ==
    [m EXCEPT !.px =
        [p \in DOMAIN m.px |->
            IF in_rounded_rectangle(p[1], p[2], box, r) THEN fill
            ELSE m.px[p]]]

\* a copy that hands back the same object
image_copy_alias(hp, ref) == [heap |-> hp, ref |-> ref]

\* image.copy(): a new object with the same content
image_copy(hp, ref) == [heap |-> Append(hp, hp[ref]), ref |-> Len(hp) + 1]

\* output.putalpha(mask): changes the object ref in place
putalpha(hp, ref, m) ==
    [hp EXCEPT ![ref].px =
        [p \in DOMAIN hp[ref].px |-> [rgb |-> hp[ref].px[p].rgb, a |-> m.px[p]]]]

\* a radius clamped by the sides, not by half of them
clamp_radius_to_side(r, w, h) == Min(r, Min(w, h))

\* line 380: min(radius, image.width // 2, image.height // 2)
clamp_radius(r, w, h) == Min(r, Min(w \div 2, h \div 2))

\* lines 376-386: the heap after the call, the object returned and the locals
apply_rounded_corners_pil(hp, ref, r) ==
    LET size == <<hp[ref].width, hp[ref].height>>
        safe == clamp_radius(r, hp[ref].width, hp[ref].height)
        m == rounded_rectangle(new_L(size, 0), <<0, 0>> \o size, safe, 255)
        copied == image_copy(hp, ref)
    IN  [heap |-> putalpha(copied.heap, copied.ref, m),
         ret |-> copied.ref,
         mask |-> m,
         safe_radius |-> safe]

\* the corners are rounded whatever the radius
round_always(hp, ref, r) == apply_rounded_corners_pil(hp, ref, r)

\* lines 356-357 and 432-433: if radius > 0, the image is replaced by the
\* rounded one
round_if_requested(hp, ref, r) ==
    IF r > 0 THEN apply_rounded_corners_pil(hp, ref, r)
    ELSE [heap |-> hp, ret |-> ref, mask |-> <<>>, safe_radius |-> 0]

InitMask ==
    /\ AppConstructed
    /\ \E img \in SourceImages :
          /\ heap = <<img>>
          /\ original = img
    /\ image = 1
    /\ radius \in 0..MaxRadius
    /\ via = "none"
    /\ output = 0
    /\ mask = <<>>
    /\ safe_radius = 0
    /\ NoSave

Returned(result, caller) ==
    /\ heap' = result.heap
    /\ output' = result.ret
    /\ mask' = result.mask
    /\ safe_radius' = result.safe_radius
    /\ via' = caller
    /\ UNCHANGED << image, radius, original, app_vars, ico_vars, list_vars >>

\* apply_rounded_corners_pil(image, radius), called directly
call_apply_rounded_corners_pil ==
    /\ via = "none"
    /\ Returned(apply_rounded_corners_pil(heap, image, radius), "direct")

\* update_preview, lines 353-357: the image that is shown
update_preview_image ==
    /\ via = "none"
    /\ Returned(round_if_requested(heap, image, radius), "preview")

\* run_conversion, lines 430-433: the image that is saved
run_conversion_image ==
    /\ via = "none"
    /\ Returned(round_if_requested(heap, image, radius), "conversion")

NextMask ==
    \/ call_apply_rounded_corners_pil
    \/ update_preview_image
    \/ run_conversion_image

SpecMask == InitMask /\ [][NextMask]_vars

\* the function was called: directly, or by a caller with a radius above 0
Applied == via = "direct" \/ (via \in {"preview", "conversion"} /\ radius > 0)

\* C4: the radius used is min(radius, width div 2, height div 2), so twice
\* it exceeds neither side, and every radius at or above
\* max(width div 2, height div 2) gives the mask of this call when the
\* radius of this call is at or above it too.
C4_ClampedRadius ==
    Applied =>
        LET w == original.width
            h == original.height
            half == Max(w \div 2, h \div 2)
        IN  /\ safe_radius <= radius
            /\ 2 * safe_radius <= w /\ 2 * safe_radius <= h
            /\ safe_radius = radius
                  \/ 2 * safe_radius + 1 >= w \/ 2 * safe_radius + 1 >= h
            /\ radius >= half =>
                  \A r2 \in half..(MaxRadius + 1) :
                      apply_rounded_corners_pil(<<original>>, 1, r2).mask = mask

\* a call with a radius above half of both sides of an image with corners
\* to cut
C4_Witness ==
    /\ Applied
    /\ radius > Max(original.width \div 2, original.height \div 2)
    /\ safe_radius >= 2
    /\ \E p \in DOMAIN mask.px : mask.px[p] = 0

\* the alpha channel of the image the caller ends up with is that of the
\* image it started from
AlphaKept ==
    \A p \in DOMAIN original.px : heap[output].px[p].a = original.px[p].a

\* C5 as stated: with radius 0 the alpha of every pixel is unchanged, for a
\* direct call and along the preview and conversion paths.
C5_RadiusZeroKeepsAlpha ==
    (via # "none" /\ radius = 0) => AlphaKept

\* C5 amended: with radius 0 the preview and conversion paths skip the call
\* and keep the alpha of every pixel; a direct call with radius 0 sets the
\* alpha of every pixel to 255, so it keeps the alpha of fully opaque images
\* only.
C5_RadiusZeroByPath ==
    (via # "none" /\ radius = 0) =>
        /\ via \in {"preview", "conversion"} => AlphaKept /\ output = image
        /\ via = "direct" =>
              \A p \in DOMAIN original.px : heap[output].px[p].a = 255

\* a direct call with radius 0 on an image that is not fully opaque
C5_Witness ==
    /\ via = "direct" /\ radius = 0
    /\ \E p \in DOMAIN original.px : original.px[p].a # 255

\* C6: the call leaves the argument image as it was; the returned image has
\* the dimensions and the colour of every pixel of the argument, and the
\* alpha of every pixel is the mask value there, 0 or 255, whatever the alpha
\* of the argument.
C6_OnlyAlphaReplaced ==
    Applied =>
        /\ heap[image] = original
        /\ heap[output].width = original.width
        /\ heap[output].height = original.height
        /\ DOMAIN heap[output].px = DOMAIN original.px
        /\ \A p \in DOMAIN original.px :
              /\ heap[output].px[p].rgb = original.px[p].rgb
              /\ heap[output].px[p].a = mask.px[p]
              /\ mask.px[p] \in {0, 255}

\* a call on a partly transparent image cuts a corner pixel and keeps another
C6_Witness ==
    /\ Applied
    /\ \E p, q \in DOMAIN original.px :
          /\ original.px[p].a = 128 /\ heap[output].px[p].a = 0
          /\ original.px[q].a = 128 /\ heap[output].px[q].a = 255

\* ------------------------------------------- the ICO file a save call writes
\* run_conversion hands the container to img_rgba.save(format='ICO'), the
\* ICO writer of Pillow: it keeps the requested sizes that fit into the image,
\* scales the image to each kept size within its aspect ratio, and writes the
\* 6-byte header, one 16-byte directory entry per frame and the payloads
ICO_HEADER_BYTES == 6
ICO_ENTRY_BYTES == 16
ICO_MAX_SIDE == 256

\* the sizes of the decoded source images explored: smaller than some icon
\* sizes, not square, and larger than every icon size
SourceSizes == { <<20, 20>>, <<64, 32>>, <<300, 300>> }

\* the byte lengths an encoded frame may have
PayloadLengths == {1, 3}

\* the save calls run_conversion makes for one listed file, over all options
IcoRequests ==
    UNION { Range(save_requests(<<"a", "/", "x", ".", "png">>, <<"out">>,
                                effective_sizes(t[1], t[2]), t[3], t[2])) :
              t \in {o \in [Range(ICON_SIZES) -> BOOLEAN] \X BOOLEAN \X BOOLEAN :
                        effective_sizes(o[1], o[2]) # <<>>} }

\* (w1, h1) sorts before (w2, h2)
size_before(a, b) == a[1] < b[1] \/ (a[1] = b[1] /\ a[2] < b[2])

\* sorted(set(sizes))
RECURSIVE sorted_set(_)
sorted_set(S) ==
    IF S = {} THEN <<>>
    ELSE LET least == CHOOSE a \in S : \A b \in S \ {a} : size_before(a, b)
         IN  <<least>> \o sorted_set(S \ {least})

\* the requested size is ignored: it does not fit into the image, or into
\* the container
size_ignored(size, source) ==
    \/ size[1] > source[1]
    \/ size[2] > source[2]
    \/ size[1] > ICO_MAX_SIDE
    \/ size[2] > ICO_MAX_SIDE

\* frame.thumbnail(size): the image scaled into size, aspect ratio kept
thumbnail(source, size) ==
    IF size[1] * source[2] >= size[2] * source[1]
    THEN <<Max((2 * size[2] * source[1] + source[2]) \div (2 * source[2]), 1),
           size[2]>>
    ELSE <<size[1],
           Max((2 * size[1] * source[2] + source[1]) \div (2 * source[1]), 1)>>

\* the frames in the order they are stored
frames_of(sizes, source) ==
    LET kept == SelectSeq(sorted_set(Range(sizes)),
                          LAMBDA sz : ~ size_ignored(sz, source))
    IN  [k \in 1..Len(kept) |-> thumbnail(source, kept[k])]

\* bWidth and bHeight: one byte each, 0 standing for 256
side_byte(n) == IF n < ICO_MAX_SIDE THEN n ELSE 0

side_of_byte(b) == IF b = 0 THEN ICO_MAX_SIDE ELSE b

\* offset = fp.tell() + len(frames) * 16, taken after the header is written
first_offset(count) == ICO_HEADER_BYTES + count * ICO_ENTRY_BYTES

InitIco ==
    /\ AppConstructed
    /\ NoCall
    /\ ico_request \in IcoRequests
    /\ ico_source \in SourceSizes
    /\ ico_pc = "open"
    /\ ico_frames = <<>>
    /\ ico_offset = 0
    /\ ico_file = [type |-> 0, count |-> 0, entries |-> <<>>, payloads |-> <<>>]

\* the header is written and the frames are chosen
ico_write_header ==
    /\ ico_pc = "open"
    /\ LET frames == frames_of(ico_request.sizes, ico_source)
       IN  /\ ico_frames' = frames
           /\ ico_file' = [ico_file EXCEPT !.type = 1, !.count = Len(frames)]
           /\ ico_offset' = first_offset(Len(frames))
    /\ ico_pc' = "entries"
    /\ UNCHANGED << ico_request, ico_source, app_vars, mask_vars, list_vars >>

\* one frame is encoded: its directory entry and its payload are written
ico_write_frame ==
    /\ ico_pc = "entries"
    /\ Len(ico_file.entries) < Len(ico_frames)
    /\ \E bytes_len \in PayloadLengths :
          LET frame == ico_frames[Len(ico_file.entries) + 1]
          IN  /\ ico_file' =
                    [ico_file EXCEPT
                        !.entries = Append(@,
                            [bWidth |-> side_byte(frame[1]),
                             bHeight |-> side_byte(frame[2]),
                             dwBytesInRes |-> bytes_len,
                             dwImageOffset |-> ico_offset]),
                        !.payloads = Append(@,
                            [at |-> ico_offset, len |-> bytes_len])]
              /\ ico_offset' = ico_offset + bytes_len
    /\ UNCHANGED << ico_request, ico_source, ico_pc, ico_frames, app_vars,
                    mask_vars, list_vars >>

\* every frame is written: save returns
ico_close ==
    /\ ico_pc = "entries"
    /\ Len(ico_file.entries) = Len(ico_frames)
    /\ ico_pc' = "closed"
    /\ UNCHANGED << ico_request, ico_source, ico_frames, ico_offset, ico_file,
                    app_vars, mask_vars, list_vars >>

NextIco ==
    \/ ico_write_header
    \/ ico_write_frame
    \/ ico_close

SpecIco == InitIco /\ [][NextIco]_vars

\* the first byte after the last byte written
IcoFileLength ==
    LET ends == {ICO_HEADER_BYTES + Len(ico_file.entries) * ICO_ENTRY_BYTES}
                    \cup {ico_file.payloads[k].at + ico_file.payloads[k].len :
                            k \in 1..Len(ico_file.payloads)}
    IN  CHOOSE e \in ends : \A f \in ends : f <= e

RECURSIVE SumBytesBefore(_, _)
SumBytesBefore(entries, k) ==
    IF k <= 1 THEN 0
    ELSE entries[k - 1].dwBytesInRes + SumBytesBefore(entries, k - 1)

\* C7 as stated: the file written for a request with n sizes declares type 1
\* and n entries; the k-th entry describes the k-th requested size and has
\* the offset 6 + 16*n + the payload lengths of the entries before it; the
\* last entry's offset plus its length is the file length.
C7_WellFormedContainer ==
    ico_pc = "closed" =>
        LET n == Len(ico_request.sizes)
            e == ico_file.entries
        IN  /\ ico_file.type = 1
            /\ ico_file.count = n
            /\ Len(e) = n
            /\ \A k \in 1..n :
                  /\ side_of_byte(e[k].bWidth) = ico_request.sizes[k][1]
                  /\ side_of_byte(e[k].bHeight) = ico_request.sizes[k][2]
                  /\ e[k].dwImageOffset = 6 + 16 * n + SumBytesBefore(e, k)
            /\ e[n].dwImageOffset + e[n].dwBytesInRes = IcoFileLength

\* ================================================================ properties
\* the run of run_conversion has reached its last statement
RunEnded == pc = "end" /\ outcome \in {"success", "error"}

\* the save calls made for the k-th listed file
SavesOf(k) == SelectSeq(saves, LAMBDA c : c.request.source = file_list[k])

\* every save call the loop makes for the k-th listed file was made and
\* returned normally
ConvertedAndSaved(k) ==
    /\ Len(SavesOf(k)) =
          (IF save_separately THEN Len(selected_sizes) ELSE 1)
    /\ \A n \in 1..Len(SavesOf(k)) : SavesOf(k)[n].ok

ReportedFailed(k) ==
    Message("Conversion Error", basename(file_list[k])) \in Range(messages)

\* C1 as stated: when a run of run_conversion ends, every listed file was
\* either reported as failed or converted and saved, the files after a
\* failing one included.
C1_BatchContinuesPastFailure ==
    RunEnded =>
        \A k \in 1..Len(file_list) : ReportedFailed(k) \/ ConvertedAndSaved(k)

\* C1 amended: run_conversion stops at the first file that fails: the failure
\* is reported once, naming that file, every file before it was converted
\* and saved, and no save call is made for any file after it.
C1_StopsAtFirstFailure ==
    (pc = "end" /\ outcome = "error") =>
        /\ status_label.text = "Error!"
        /\ ReportedFailed(i)
        /\ Len(SelectSeq(messages,
                LAMBDA m : m.title = "Conversion Error")) = 1
        /\ \A k \in 1..(i - 1) : ConvertedAndSaved(k)
        /\ \A k \in (i + 1)..Len(file_list) : SavesOf(k) = <<>>

\* a run fails on a file that has files both before and after it
C1_Witness ==
    /\ pc = "end" /\ outcome = "error"
    /\ 1 < i /\ i < Len(file_list)
    /\ SavesOf(1) # <<>>

\* C2 as stated: when a step for a source image fails, no output file of
\* that source image, partial or for an earlier size, is in the destination
\* directory.
C2_NoOutputOfFailedSource ==
    (pc = "end" /\ outcome = "error") =>
        \A f \in disk : f.source # file_list[i]

\* C3 as stated: a run in 8-bit mode with 256 checked is rejected: it makes
\* no save call, writes no file and does not end in success.
C3_Rejects256In8Bit ==
    (pc # "idle" /\ ~ bit_32 /\ size_checkboxes[256]
        /\ outcome \notin {"no_files", "cancelled"}) =>
        /\ saves = <<>>
        /\ disk = {}
        /\ outcome \notin {"running", "success"}

\* C3 amended: a run in 8-bit mode with 256 checked shows the warning
\* and drops the 256 entry: no save call receives a 256 entry, the other
\* checked sizes are the ones converted, and no file is written exactly when
\* 256 was the only checked size.
C3_Drops256In8Bit ==
    (pc # "idle" /\ ~ bit_32 /\ size_checkboxes[256]
        /\ outcome \notin {"no_files", "cancelled"}) =>
        LET others == SelectSeq(ICON_SIZES,
                        LAMBDA s : size_checkboxes[s] /\ s # 256)
        IN  /\ messages # <<>> /\ messages[1] = Message("Warning", <<>>)
            /\ \A n \in 1..Len(saves) :
                  <<256, 256>> \notin Range(saves[n].request.sizes)
            /\ others = <<>> <=> outcome = "no_sizes"
            /\ outcome = "no_sizes" => saves = <<>> /\ disk = {}
            /\ outcome # "no_sizes" => selected_sizes = others
            /\ outcome = "success" =>
                  \A n \in 1..Len(saves) :
                      Range(saves[n].request.sizes) \subseteq
                          {<<s, s>> : s \in Range(others)}

\* a run in 8-bit mode with 256 and another size checked succeeds
C3_Witness ==
    /\ pc = "end" /\ outcome = "success"
    /\ ~ bit_32 /\ size_checkboxes[256]
    /\ saves # <<>>

\* C8: a run that completes without error over n files and k effective sizes
\* makes n saves in combined mode, the f-th to <name of file f>.ico with all k
\* sizes, and n*k saves in separate mode, one per (file, size) to
\* <name>_<size>.ico with that size alone; the progress value ends at the
\* progress maximum.
C8_OutputGrouping ==
    (pc = "end" /\ outcome = "success") =>
        LET n == Len(file_list)
            k == Len(selected_sizes)
            stem(f) == base_name_of(file_list[f])
        IN  /\ progress_value = progress_max
            /\ \A c \in Range(saves) : c.ok
            /\ ~ save_separately =>
                  /\ Len(saves) = n
                  /\ \A f \in 1..n :
                        /\ saves[f].request.path =
                              output_dir \o <<"/">> \o stem(f) \o <<".ico">>
                        /\ saves[f].request.sizes =
                              [j \in 1..k |->
                                  <<selected_sizes[j], selected_sizes[j]>>]
            /\ save_separately =>
                  /\ Len(saves) = n * k
                  /\ \A f \in 1..n, j \in 1..k :
                        LET c == saves[(f - 1) * k + j].request
                        IN  /\ c.path = output_dir \o <<"/">> \o stem(f)
                                  \o <<"_", ToString(selected_sizes[j]), ".ico">>
                            /\ c.sizes =
                                  << <<selected_sizes[j], selected_sizes[j]>> >>

\* a run over several files and several sizes completes in separate mode
C8_Witness ==
    /\ pc = "end" /\ outcome = "success"
    /\ save_separately
    /\ Len(file_list) >= 2 /\ Len(selected_sizes) >= 2
    /\ Len(saves) = Len(file_list) * Len(selected_sizes)

\* the position of a size in ICON_SIZES
IconIndex(s) == CHOOSE n \in 1..Len(ICON_SIZES) : ICON_SIZES[n] = s

\* C9: every save call of run_conversion gets a size list that is
\* non-empty, holds only (s, s) with s in ICON_SIZES, holds no size twice, is
\* in ascending ICON_SIZES order, and holds 256 only with the png format; when
\* no size is left to convert, no save call is made and no file is written.
C9_EncoderPreconditions ==
    /\ \A c \in Range(saves) :
          LET sz == c.request.sizes
          IN  /\ sz # <<>>
              /\ \A n \in 1..Len(sz) :
                    \E s \in Range(ICON_SIZES) : sz[n] = <<s, s>>
              /\ \A m, n \in 1..Len(sz) :
                    m < n => IconIndex(sz[m][1]) < IconIndex(sz[n][1])
              /\ <<256, 256>> \in Range(sz) => c.request.bitmap_format = "png"
              /\ c.request.bitmap_format = "png" <=> bit_32
    /\ (\A s \in Range(ICON_SIZES) :
            size_checkboxes[s] => (s = 256 /\ ~ bit_32))
        => saves = <<>> /\ disk = {} /\ pc # "loop"

\* a combined save of several sizes, 256 among them, was made
C9_Witness ==
    \E c \in Range(saves) :
        /\ Len(c.request.sizes) >= 2
        /\ <<256, 256>> \in Range(c.request.sizes)

\* C10 as stated: in a run that completes without error no two save calls
\* target the same path, so the count of the final status equals the number
\* of output files written.
C10_DistinctOutputPaths ==
    (pc = "end" /\ outcome = "success") =>
        /\ \A m, n \in 1..Len(saves) :
              m # n => saves[m].request.path # saves[n].request.path
        /\ status_label.count = Cardinality({f.path : f \in disk})


\* C11: after any sequence of adds, removals and clears the file list holds
\* no path twice and only paths whose size was at most 4 MiB (4194304
\* bytes) when they were added; an add of nothing but oversized or
\* already-listed paths leaves the list as it was.
C11_ListInvariant ==
    /\ \A m, n \in 1..Len(file_list) :
          m # n => file_list[m] # file_list[n]
    /\ \A p \in Range(file_list) :
          added_size[p] > 0 /\ added_size[p] <= 4194304
    /\ last_add # <<>> =>
          ((\A k \in 1..Len(last_add.file_paths) :
                \/ last_add.file_paths[k].size > 4194304
                \/ last_add.file_paths[k].path \in Range(last_add.before))
            => file_list = last_add.before)

\* an add of an oversized path and of an already-listed path of allowed
\* size to a list of several files left the list as it was
C11_Witness ==
    /\ last_add # <<>>
    /\ Len(last_add.before) >= 2
    /\ file_list = last_add.before
    /\ \E k \in 1..Len(last_add.file_paths) :
          last_add.file_paths[k].size > MAX_FILE_SIZE_BYTES
    /\ \E k \in 1..Len(last_add.file_paths) :
          /\ last_add.file_paths[k].size <= MAX_FILE_SIZE_BYTES
          /\ last_add.file_paths[k].path \in Range(last_add.before)

====
